---- MODULE Spec2Model ----
(***************************************************************************)
(* PosterMaker: the upscale orchestration pipeline (app/imaging/pipeline)  *)
(* and the ProcessWorker thread of the main window that drives it.         *)
(*                                                                         *)
(* One behaviour is one run: a caller (directly, or through ProcessWorker) *)
(* calls process_exact or process_and_save on one source image; the        *)
(* external engine, the file system content and the user's cancel button   *)
(* are the environment.                                                    *)
(***************************************************************************)
EXTENDS Integers, Sequences, FiniteSets, TLC

VARIABLES
    req,            \* the call's arguments
    env,            \* what the call finds on disk, and the engine's kind
    pc,             \* position of the run inside process_exact / process_and_save
    via_save,       \* process_exact was entered from process_and_save
    outcome,        \* "none" | "returned" | "raised"
    error,          \* the exception raised, "" if none
    tilesize,       \* process_exact's local tilesize (after the cap)
    tw, th,         \* target pixels
    sw, sh,         \* current image pixels
    cur,            \* current image: "src" | "pass1" | "pass2"
    workdir,        \* "none" | "present" | "removed"
    files,          \* artifacts in the workdir: pass name -> file
    out_file,       \* the file at out_path
    out_content,    \* <<x, y, w, h>>: where the picture sits on out_file's canvas
    out_writer,     \* who last wrote out_path: a call (run_no), OtherRun, 0 if none
    run_no,         \* the caller's calls so far, this one included
    prior_writer,   \* out_writer as this call found it
    checks,         \* the setup checks this call has performed, in order
    pass_no,        \* pass being run (0 = none)
    attempt,        \* loop index of _run_ncnn_with_retry
    safe_tile,      \* _run_ncnn_with_retry's local safe_tile
    last_progress,  \* _run_ncnn_with_retry's local last_progress
    out_lines,      \* number of lines captured in this attempt
    streamed,       \* lines the engine has streamed in the whole run
    proc,           \* engine subprocess: "none" | "running" | "exited" | "killed"
    ret,            \* exit code of the last engine process waited for
    slept,          \* _run_ncnn_with_retry called time.sleep(1) after the attempt
                    \* that failed last, and has started no engine since
    cmds,           \* every command line handed to Popen, in order
    progress_calls, \* values progress_cb was called with, in order
    preview_calls,  \* paths preview_cb was called with, in order
    should_stop,    \* ProcessWorker._should_stop
    stop_mark,      \* what stop() found: commands, engine, progress values,
                    \* position of the run; or <<>>
    thread,         \* "direct" | "none" | "created" | "running" | "finished" |
                    \* "terminated"
    finished,       \* finished signals emitted by ProcessWorker: <<success, path, msg>>
    processing,     \* MainWindow.processing
    delivered,      \* progress signals of the worker the main window has handled
    target_value,   \* SmoothProgressBar._target_value
    bpc,            \* position of UpscaleWorker.run: "idle" | "check" | "start" |
                    \* "file" | "all_done" | "end"
    idx,            \* UpscaleWorker.run's loop index (0 before the first file)
    cancel_flag,    \* UpscaleWorker._cancel
    signals,        \* signals the UpscaleWorker emitted outside the callbacks
    jc_calls,       \* calls made to the JobController, in order
    workers,        \* UpscaleWorkers the JobController created and wired
    running         \* UpscaleWorker threads started and not yet ended

vars == <<req, env, pc, via_save, outcome, error, tilesize, tw, th, sw, sh, cur,
          workdir, files, out_file, out_content, out_writer, run_no, prior_writer,
          checks, pass_no, attempt, safe_tile, last_progress,
          out_lines, streamed, proc, ret, slept, cmds, progress_calls, preview_calls,
          should_stop, stop_mark, thread, finished, processing, delivered,
          target_value, bpc, idx, cancel_flag, signals, jc_calls, workers, running>>

-----------------------------------------------------------------------------
(* Bounds of the model *)

\* lines the engine streams in one run
MaxLines == 1

\* calls a caller makes one after the other with the same request, files of
\* a batch
MaxRuns == 2

\* calls made to the JobController
MaxCalls == 2

-----------------------------------------------------------------------------
(* Program constants *)

max_retries == 3

A_SIZES_MM ==
    [p \in {"a1", "a2", "a3"} |->
        CASE p = "a1" -> <<594, 841>>
          [] p = "a2" -> <<420, 594>>
          [] p = "a3" -> <<297, 420>>]

-----------------------------------------------------------------------------
(* Pure helpers *)

Max(a, b) == IF a >= b THEN a ELSE b
Min(a, b) == IF a <= b THEN a ELSE b

\* Python's round() of the non-negative ratio n/d: nearest, ties to even
py_round(n, d) ==
    LET q == n \div d
        r == n % d
    IN  IF 2 * r < d THEN q
        ELSE IF 2 * r > d THEN q + 1
        ELSE IF q % 2 = 0 THEN q ELSE q + 1

\* str.lower() on the paper names of the model
lower(p) ==
    CASE p = "A1" -> "a1"
      [] p = "A2" -> "a2"
      [] p = "A3" -> "a3"
      [] p = "A4" -> "a4"
      [] OTHER -> p

paper_supported(paper) == lower(paper) \in DOMAIN A_SIZES_MM

\* a target that ignores the orientation
target_pixels_upright(paper, dpi, portrait) ==
    LET mm == A_SIZES_MM[lower(paper)]
    IN  <<py_round(mm[1] * dpi * 10, 254), py_round(mm[2] * dpi * 10, 254)>>

\* target_pixels for a supported paper; mm/25.4*dpi = mm*dpi*10/254
target_pixels(paper, dpi, portrait) ==
    LET mm == A_SIZES_MM[lower(paper)]
        w_px == py_round(mm[1] * dpi * 10, 254)
        h_px == py_round(mm[2] * dpi * 10, 254)
    IN  IF portrait THEN <<w_px, h_px>> ELSE <<h_px, w_px>>

\* sizes.target_pixels: explicit millimetres, at least one pixel per axis
sizes_target_pixels(width_mm, height_mm, dpi) ==
    <<Max(1, py_round(width_mm * dpi * 10, 254)),
      Max(1, py_round(height_mm * dpi * 10, 254))>>

\* max(tw/sw, th/sh) > num/den
need_exceeds(t_w, t_h, s_w, s_h, num, den) ==
    \/ t_w * den > num * s_w
    \/ t_h * den > num * s_h

\* a clamp that cuts one short of the top
clamp_progress_short(value) == Max(0, Min(99, value))

\* _emit_progress's clamp
clamp_progress(value) == Max(0, Min(100, value))

\* the tile-size cap
clamp_tile(t) == Max(64, Min(t, 512))

-----------------------------------------------------------------------------
(* Files *)

\* kind: "absent"  no file
\*       "empty"   zero bytes
\*       "garbage" not openable as an image
\*       "corrupt" header readable (width, height known), pixel data undecodable
\*       "black"   decodable, uniformly black
\*       "valid"   decodable, not blank
Unset == 0 - 1

NoFile == [kind |-> "absent", w |-> 0, h |-> 0, dpi |-> 0]

ImageFile(kind, w, h, dpi) == [kind |-> kind, w |-> w, h |-> h, dpi |-> dpi]

\* the content check of _validate_png_output: convert("RGB") of undecodable
\* pixel data raises, the inner handler only warns and the file passes
content_check(f) ==
    IF f.kind = "corrupt" THEN TRUE ELSE f.kind # "black"

validate_png_output(f) ==
    /\ f.kind # "absent"
    /\ f.kind # "empty"
    /\ f.kind # "garbage"
    /\ f.w > 0 /\ f.h > 0
    /\ content_check(f)

SrcFile == ImageFile(env.src, env.size[1], env.size[2], 0)

\* a rectangle <<x, y, w, h>> of a canvas
NoBox == <<0, 0, 0, 0>>

\* the picture covers the whole canvas of size sz
whole(sz) == <<0, 0, sz[1], sz[2]>>

\* a resize that keeps the picture's proportions inside the size asked for
resize_keep_aspect(size_w, size_h, s_w, s_h) ==
    IF size_w * s_h <= size_h * s_w
    THEN <<size_w, Max(1, (s_h * size_w) \div s_w)>>
    ELSE <<Max(1, (s_w * size_h) \div s_h), size_h>>

\* Image.resize((w, h)): the result has the size asked for, whatever the
\* size (s_w, s_h) of the picture resized
resize(size_w, size_h, s_w, s_h) == <<size_w, size_h>>

\* the pHYs chunk save(dpi=(dpi, dpi)) writes into a PNG: pixels per metre,
\* int(dpi / 0.0254 + 0.5)
png_phys(dpi) == (dpi * 10000 + 127) \div 254

\* a save that writes no DPI
dpi_tag_none(dpi) == 0

\* the DPI a reader finds in the saved PNG (pixels per metre * 0.0254), to
\* the nearest integer
dpi_tag(dpi) == py_round(png_phys(dpi) * 254, 10000)

\* the file the path `cur` names
CurFile == IF cur = "src" THEN SrcFile ELSE files[cur]

-----------------------------------------------------------------------------
(* Inputs *)

Papers == {"a3", "A3", "a4"}
Dpis == {150, 600}
Tiles == {0 - 64, 0, 200, 1024}
SrcSizes == {<<200, 200>>, <<600, 800>>, <<1200, 1700>>, <<2000, 3000>>}
SettingsSizes == {<<297, 420>>, <<420, 297>>, <<148, 210>>}
FitModes == {"Fit", "Stretch"}

\* fit_mode is the settings' fit_mode ("" when the call has no settings),
\* runs the number of times the caller makes the call, cb_raise tells
\* whether the callbacks handed in raise whenever they are called, batch
\* whether the calls are made by an UpscaleWorker of the JobController (runs
\* is then the number of files)

\* every shape of call, each on a quiet mock engine
Requests ==
    [entry : {"process_exact"}, worker : {FALSE},
     paper : Papers, portrait : BOOLEAN, size_mm : {<<0, 0>>}, fit_mode : {""},
     dpi : Dpis, force_600dpi : BOOLEAN, keep_native_if_larger : BOOLEAN,
     fp16 : BOOLEAN, tilesize : Tiles, runs : {1}, cb_raise : {FALSE},
     batch : {FALSE}]
    \cup
    \* process_and_save(src, out, settings, ...): size_mm is the settings'
    \* (width_mm, height_mm)
    [entry : {"process_and_save"}, worker : {FALSE},
     paper : {""}, portrait : {TRUE}, size_mm : SettingsSizes, fit_mode : FitModes,
     dpi : Dpis, force_600dpi : BOOLEAN, keep_native_if_larger : BOOLEAN,
     fp16 : {TRUE}, tilesize : {512}, runs : {1}, cb_raise : {FALSE},
     batch : {FALSE}]
    \cup
    \* process_exact(src, settings): every keyword at its default
    [entry : {"legacy"}, worker : {FALSE},
     paper : {""}, portrait : {TRUE}, size_mm : SettingsSizes, fit_mode : {"Fit"},
     dpi : Dpis, force_600dpi : {FALSE}, keep_native_if_larger : {FALSE},
     fp16 : {TRUE}, tilesize : {512}, runs : {1}, cb_raise : {FALSE},
     batch : {FALSE}]

\* engine: "mock" exits 0 and writes a black image iff -x is on its command
\*         line (the MockPopen of the tests); "any" may do anything
\* chatty: the engine prints lines
\* other:  the source of a second run of process_exact that executes at the
\*         same time on the same stem, paper, DPI and output directory
\*         ("none": there is no such run)
Envs ==
    [src : {"valid", "black", "corrupt"}, size : SrcSizes, setup : {"ok"},
     engine : {"mock"}, chatty : {FALSE}, other : {"none"}]
    \cup
    [src : {"missing"}, size : {<<200, 200>>}, setup : {"ok"},
     engine : {"mock"}, chatty : {FALSE}, other : {"none"}]
    \cup
    [src : {"valid"}, size : {<<200, 200>>},
     setup : {"no_exe", "no_models_dir", "no_model_files"},
     engine : {"mock"}, chatty : {FALSE}, other : {"none"}]

\* one shape of call on an engine that may do anything
EngineRequests ==
    [entry : {"process_exact"}, worker : {FALSE},
     paper : {"a3"}, portrait : {TRUE}, size_mm : {<<0, 0>>}, fit_mode : {""},
     dpi : {150}, force_600dpi : {FALSE}, keep_native_if_larger : {FALSE},
     fp16 : BOOLEAN, tilesize : {200}, runs : {1}, cb_raise : {FALSE},
     batch : {FALSE}]

EngineEnvs ==
    [src : {"valid"}, size : {<<200, 200>>, <<600, 800>>}, setup : {"ok"},
     engine : {"any"}, chatty : {TRUE}, other : {"none"}]

\* ProcessWorker runs, the user may cancel at any moment
WorkerRequests ==
    [entry : {"process_exact"}, worker : {TRUE},
     paper : {"a3"}, portrait : {TRUE}, size_mm : {<<0, 0>>}, fit_mode : {""},
     dpi : {150}, force_600dpi : {FALSE}, keep_native_if_larger : BOOLEAN,
     fp16 : {TRUE}, tilesize : {200}, runs : {1}, cb_raise : {FALSE},
     batch : {FALSE}]

WorkerEnvs ==
    [src : {"valid", "black"}, size : {<<600, 800>>, <<2000, 3000>>}, setup : {"ok"},
     engine : {"mock"}, chatty : {TRUE}, other : {"none"}]

\* the same call made again and again
RepeatRequests ==
    [entry : {"process_exact"}, worker : {FALSE},
     paper : {"a3"}, portrait : {TRUE}, size_mm : {<<0, 0>>}, fit_mode : {""},
     dpi : {150}, force_600dpi : {FALSE}, keep_native_if_larger : BOOLEAN,
     fp16 : {TRUE}, tilesize : {512}, runs : {MaxRuns}, cb_raise : {FALSE},
     batch : {FALSE}]
    \cup
    [entry : {"process_and_save"}, worker : {FALSE},
     paper : {""}, portrait : {TRUE}, size_mm : {<<297, 420>>, <<148, 210>>},
     fit_mode : {"Fit"},
     dpi : {150}, force_600dpi : {FALSE}, keep_native_if_larger : {FALSE},
     fp16 : {TRUE}, tilesize : {512}, runs : {MaxRuns}, cb_raise : {FALSE},
     batch : {FALSE}]

RepeatEnvs ==
    [src : {"valid"}, size : {<<600, 800>>, <<2000, 3000>>}, setup : {"ok"},
     engine : {"mock"}, chatty : {FALSE}, other : {"none"}]

\* callbacks that raise on every call
RaisingRequests ==
    [entry : {"process_exact"}, worker : {FALSE},
     paper : {"a3"}, portrait : {TRUE}, size_mm : {<<0, 0>>}, fit_mode : {""},
     dpi : {150}, force_600dpi : {FALSE}, keep_native_if_larger : BOOLEAN,
     fp16 : BOOLEAN, tilesize : {512}, runs : {1}, cb_raise : {TRUE},
     batch : {FALSE}]

RaisingEnvs ==
    [src : {"valid"}, size : {<<200, 200>>, <<2000, 3000>>}, setup : {"ok"},
     engine : {"mock"}, chatty : BOOLEAN, other : {"none"}]

\* a DPI of zero
ZeroDpiRequests ==
    [entry : {"process_exact"}, worker : {FALSE},
     paper : {"a3"}, portrait : BOOLEAN, size_mm : {<<0, 0>>}, fit_mode : {""},
     dpi : {0}, force_600dpi : {FALSE}, keep_native_if_larger : BOOLEAN,
     fp16 : {FALSE}, tilesize : {512}, runs : {1}, cb_raise : {FALSE},
     batch : {FALSE}]

ZeroDpiEnvs ==
    [src : {"valid"}, size : {<<200, 200>>}, setup : {"ok"},
     engine : {"mock"}, chatty : {FALSE}, other : {"none"}]

\* two runs at the same time, writing the same out_path
ConcurrentRequests ==
    [entry : {"process_exact"}, worker : {FALSE},
     paper : {"a3"}, portrait : {TRUE}, size_mm : {<<0, 0>>}, fit_mode : {""},
     dpi : {150}, force_600dpi : {FALSE}, keep_native_if_larger : {FALSE},
     fp16 : {FALSE}, tilesize : {512}, runs : {1}, cb_raise : {FALSE},
     batch : {FALSE}]

ConcurrentEnvs ==
    [src : {"valid"}, size : {<<600, 800>>}, setup : {"ok"},
     engine : {"mock"}, chatty : {FALSE}, other : {"valid", "black"}]

\* the main window runs the worker again once a run is over
WindowRequests ==
    [entry : {"process_exact"}, worker : {TRUE},
     paper : {"a3"}, portrait : {TRUE}, size_mm : {<<0, 0>>}, fit_mode : {""},
     dpi : {150}, force_600dpi : {FALSE}, keep_native_if_larger : {FALSE},
     fp16 : {FALSE}, tilesize : {512}, runs : {MaxRuns}, cb_raise : {FALSE},
     batch : {FALSE}]

WindowEnvs ==
    [src : {"valid", "corrupt"}, size : {<<600, 800>>}, setup : {"ok"},
     engine : {"mock"}, chatty : {FALSE}, other : {"none"}]

\* a batch of files handed to the JobController
BatchRequests ==
    [entry : {"process_and_save"}, worker : {FALSE},
     paper : {""}, portrait : {TRUE}, size_mm : {<<297, 420>>, <<148, 210>>},
     fit_mode : {"Fit"},
     dpi : {150}, force_600dpi : {FALSE}, keep_native_if_larger : {FALSE},
     fp16 : {TRUE}, tilesize : {512}, runs : {MaxRuns}, cb_raise : {FALSE},
     batch : {TRUE}]

BatchEnvs ==
    [src : {"valid", "missing"}, size : {<<600, 800>>}, setup : {"ok"},
     engine : {"mock"}, chatty : {FALSE}, other : {"none"}]

\* the arbitrary engine: with half precision on the source that takes one
\* pass, without it on both sources
EngineScenarios ==
    {s \in EngineRequests \X EngineEnvs : s[1].fp16 => s[2].size = <<600, 800>>}

Scenarios ==
    (Requests \X Envs) \cup EngineScenarios
    \cup (WorkerRequests \X WorkerEnvs) \cup (RepeatRequests \X RepeatEnvs)
    \cup (RaisingRequests \X RaisingEnvs) \cup (ZeroDpiRequests \X ZeroDpiEnvs)
    \cup (ConcurrentRequests \X ConcurrentEnvs)
    \cup (WindowRequests \X WindowEnvs)
    \cup (BatchRequests \X BatchEnvs)

\* the progress callback handed to the pipeline (the legacy call passes none)
has_progress_cb == req.entry # "legacy"
has_preview_cb == req.entry # "legacy"

Init ==
    /\ \E s \in Scenarios : req = s[1] /\ env = s[2]
    /\ pc = "idle"
    /\ via_save = FALSE
    /\ outcome = "none"
    /\ error = ""
    /\ tilesize = req.tilesize
    /\ tw = 0 /\ th = 0 /\ sw = 0 /\ sh = 0
    /\ cur = "src"
    /\ workdir = "none"
    /\ files = [p \in {"pass1", "pass2"} |-> NoFile]
    /\ out_file = NoFile
    /\ out_content = NoBox
    /\ out_writer = 0
    /\ run_no = IF req.batch THEN 0 ELSE 1
    /\ prior_writer = 0
    /\ checks = <<>>
    /\ pass_no = 0
    /\ attempt = 0
    /\ safe_tile = 0
    /\ last_progress = 0
    /\ out_lines = 0
    /\ streamed = 0
    /\ proc = "none"
    /\ ret = Unset
    /\ slept = FALSE
    /\ cmds = <<>>
    /\ progress_calls = <<>>
    /\ preview_calls = <<>>
    /\ should_stop = FALSE
    /\ stop_mark = <<>>
    /\ thread = IF req.worker THEN "created" ELSE IF req.batch THEN "none" ELSE "direct"
    /\ finished = <<>>
    /\ processing = FALSE
    /\ delivered = 0
    /\ target_value = 0
    /\ bpc = "idle"
    /\ idx = 0
    /\ cancel_flag = FALSE
    /\ signals = <<>>
    /\ jc_calls = <<>>
    /\ workers = 0
    /\ running = 0

-----------------------------------------------------------------------------
(* Callbacks *)

\* _emit_progress: clamp, call the callback, swallow whatever it raises
\* (ProcessWorker's wrapper raises once stop was requested)
emit_progress(calls, value) ==
    IF has_progress_cb THEN Append(calls, clamp_progress(value)) ELSE calls

\* a preview delivered twice
emit_preview_twice(calls, path) ==
    IF has_preview_cb THEN Append(Append(calls, path), path) ELSE calls

\* _emit_preview
emit_preview(calls, path) ==
    IF has_preview_cb THEN Append(calls, path) ELSE calls

\* the run is executing: its thread was not killed, and in a batch the
\* worker is inside its call of process_and_save
Alive == thread \in {"direct", "running"} /\ (req.batch => bpc = "file")

\* the callback raises when it is called: the caller's own callbacks may,
\* and ProcessWorker's progress_wrapper does once stop was requested
\* (its preview_wrapper returns instead)
progress_raises ==
    has_progress_cb /\ (req.cb_raise \/ (req.worker /\ should_stop))
preview_raises == has_preview_cb /\ req.cb_raise

\* a handler that lets every exception of the callback through
escapes_all(raised) == raised

\* what leaves _emit_progress / _emit_preview when the callback raised:
\* the handler catches Exception, logs a warning and returns
escapes(raised) == FALSE

-----------------------------------------------------------------------------
(* Variable groups *)

callVars == <<req, env, run_no, prior_writer>>
geomVars == <<tw, th, sw, sh, cur>>
outVars == <<out_file, out_content, out_writer>>
fsVars == <<workdir, files, outVars>>
passVars == <<pass_no, attempt, safe_tile, last_progress, out_lines, streamed, proc,
              ret, slept, cmds>>
cbVars == <<progress_calls, preview_calls>>
windowVars == <<processing, delivered, target_value>>
batchVars == <<bpc, idx, cancel_flag, signals, jc_calls, workers, running>>
workerVars == <<should_stop, stop_mark, thread, finished, windowVars, batchVars>>

\* an exception that left _emit_progress / _emit_preview would leave
\* process_exact too, through the finally block once the workspace exists
callback_abort ==
    /\ outcome' = "raised"
    /\ error' = "RuntimeError: callback"
    /\ pc' = IF workdir = "present" THEN "cleanup" ELSE "done"
    /\ UNCHANGED <<callVars, checks, via_save, tilesize, geomVars, fsVars, passVars,
                   cbVars, workerVars>>

-----------------------------------------------------------------------------
(* process_and_save *)

matches_paper(k, w, h) ==
    \/ A_SIZES_MM[k][1] = w /\ A_SIZES_MM[k][2] = h
    \/ A_SIZES_MM[k][1] = h /\ A_SIZES_MM[k][2] = w

\* the paper key process_and_save infers from the settings, "" for None
paper_key(w, h) ==
    IF \E k \in DOMAIN A_SIZES_MM : matches_paper(k, w, h)
    THEN CHOOSE k \in DOMAIN A_SIZES_MM : matches_paper(k, w, h)
    ELSE ""

\* the arguments process_exact runs with
Paper == IF via_save THEN paper_key(req.size_mm[1], req.size_mm[2]) ELSE req.paper
Portrait == IF via_save THEN req.size_mm[1] <= req.size_mm[2] ELSE req.portrait

\* a size cut down to whole pixels instead of rounded
custom_pixels_floor(w, h, dpi) ==
    <<(w * dpi * 10) \div 254, (h * dpi * 10) \div 254>>

\* the custom-size branch: a direct Lanczos resample, no engine
custom_pixels(w, h, dpi) ==
    <<py_round(w * dpi * 10, 254), py_round(h * dpi * 10, 254)>>

process_and_save ==
    /\ Alive
    /\ pc = "save"
    /\ LET w == req.size_mm[1]
           h == req.size_mm[2]
           px == custom_pixels(w, h, req.dpi)
       IN  IF paper_key(w, h) = ""
           THEN /\ via_save' = via_save
                /\ pc' = "done"
                /\ IF env.src = "missing"
                   THEN /\ outcome' = "raised"
                        /\ error' = "FileNotFoundError: input"
                        /\ UNCHANGED outVars
                   ELSE IF env.src = "corrupt"
                   THEN /\ outcome' = "raised"
                        /\ error' = "OSError: decode"
                        /\ UNCHANGED outVars
                   ELSE /\ outcome' = "returned"
                        /\ error' = error
                        /\ LET sz == resize(px[1], px[2], env.size[1], env.size[2])
                           IN  /\ out_file' = ImageFile(env.src, sz[1], sz[2],
                                                        dpi_tag(req.dpi))
                               /\ out_content' = whole(sz)
                        /\ out_writer' = run_no
           ELSE IF req.entry = "legacy"
           THEN \* Path(output_path) with output_path None
                /\ pc' = "done"
                /\ outcome' = "raised"
                /\ error' = "TypeError: Path(None)"
                /\ UNCHANGED <<via_save, outVars>>
           ELSE /\ pc' = "exact"
                /\ via_save' = TRUE
                /\ UNCHANGED <<outcome, error, outVars>>
    /\ UNCHANGED <<callVars, checks, tilesize, geomVars, workdir, files, passVars,
                   cbVars, workerVars>>

-----------------------------------------------------------------------------
(* process_exact: validation *)

\* the caller makes the call (for a worker: MainWindow._run lines 784-798,
\* which sets the busy state and starts the ProcessWorker)
call ==
    /\ pc = "idle"
    /\ req.batch => bpc = "file"
    /\ pc' = IF req.entry = "process_and_save" THEN "save" ELSE "exact"
    /\ thread' = IF req.worker THEN "running" ELSE thread
    /\ processing' = req.worker
    /\ UNCHANGED <<callVars, checks, via_save, outcome, error, tilesize, geomVars, fsVars,
                   passVars, cbVars, should_stop, stop_mark, finished, delivered,
                   target_value, batchVars>>

\* lines 397-411: legacy dispatch, the 600 DPI guard, the input check
process_exact_entry ==
    /\ Alive
    /\ pc = "exact"
    /\ IF req.entry = "legacy" /\ ~via_save
       THEN /\ pc' = "save"
            /\ UNCHANGED <<outcome, error>>
       ELSE IF req.dpi = 600 /\ ~req.force_600dpi
       THEN /\ pc' = "done"
            /\ outcome' = "raised"
            /\ error' = "ValueError: 600 DPI is disabled"
       ELSE IF env.src = "missing"
       THEN /\ pc' = "done"
            /\ outcome' = "raised"
            /\ error' = "FileNotFoundError: input"
       ELSE /\ pc' = "locate"
            /\ UNCHANGED <<outcome, error>>
    /\ UNCHANGED <<callVars, checks, via_save, tilesize, geomVars, fsVars, passVars,
                   cbVars, workerVars>>

\* the three checks, in the order process_exact makes them
setup_checks == <<"exe", "models_dir", "model_files">>

setup_errors == <<"FileNotFoundError: executable",
                  "FileNotFoundError: models folder",
                  "FileNotFoundError: model files">>

\* a validation that does not look for the model files
failing_check_no_files(setup) ==
    CASE setup = "no_exe" -> 1
      [] setup = "no_models_dir" -> 2
      [] OTHER -> 0

\* the first check that raises in this installation, 0 if none does:
\* _ensure_realesrgan_exe, _detect_models_dir, _validate_model_exists
failing_check(setup) ==
    CASE setup = "no_exe" -> 1
      [] setup = "no_models_dir" -> 2
      [] setup = "no_model_files" -> 3
      [] OTHER -> 0

\* lines 413-416: the checks run one after the other, the first failure
\* leaves process_exact
validate_setup ==
    /\ Alive
    /\ pc = "locate"
    /\ LET k == failing_check(env.setup)
       IN  IF k # 0
           THEN /\ checks' = checks \o SubSeq(setup_checks, 1, k)
                /\ pc' = "done"
                /\ outcome' = "raised"
                /\ error' = setup_errors[k]
           ELSE /\ checks' = checks \o setup_checks
                /\ pc' = "target"
                /\ UNCHANGED <<outcome, error>>
    /\ UNCHANGED <<callVars, via_save, tilesize, geomVars, fsVars, passVars, cbVars,
                   workerVars>>

\* lines 418-434: tile cap, target pixels, source size, first progress value
compute_target ==
    /\ Alive
    /\ pc = "target"
    /\ IF escapes(paper_supported(Paper) /\ progress_raises)
       THEN callback_abort
       ELSE
            /\ tilesize' = clamp_tile(tilesize)
            /\ IF ~paper_supported(Paper)
               THEN /\ pc' = "done"
                    /\ outcome' = "raised"
                    /\ error' = "ValueError: unsupported paper"
                    /\ UNCHANGED <<tw, th, sw, sh, progress_calls>>
               ELSE /\ pc' = "early_exit_check"
                    /\ tw' = target_pixels(Paper, req.dpi, Portrait)[1]
                    /\ th' = target_pixels(Paper, req.dpi, Portrait)[2]
                    /\ sw' = env.size[1]
                    /\ sh' = env.size[2]
                    /\ progress_calls' = emit_progress(progress_calls, 0)
                    /\ UNCHANGED <<outcome, error>>
            /\ UNCHANGED <<callVars, checks, via_save, cur, fsVars, passVars, preview_calls,
                           workerVars>>

-----------------------------------------------------------------------------
(* process_exact: early exit and the start of the upscaling path *)

\* the comparison with the axes crossed
keep_native_crossed == req.keep_native_if_larger /\ sw >= th /\ sh >= tw

keep_native == req.keep_native_if_larger /\ sw >= tw /\ sh >= th

\* lines 436-449: copy the source to out_path, re-encode it with the DPI tag
early_exit ==
    /\ Alive
    /\ pc = "early_exit_check"
    /\ keep_native
    /\ IF escapes(progress_raises \/ preview_raises)
       THEN callback_abort
       ELSE
            /\ pc' = "done"
            /\ IF env.src = "corrupt"
               THEN \* copyfile succeeded, im.save cannot decode the copy
                    /\ progress_calls' = emit_progress(progress_calls, 50)
                    /\ out_file' = ImageFile("corrupt", sw, sh, 0)
                    /\ out_content' = whole(<<sw, sh>>)
                    /\ out_writer' = run_no
                    /\ outcome' = "raised"
                    /\ error' = "OSError: decode"
                    /\ UNCHANGED preview_calls
               ELSE /\ progress_calls' =
                            emit_progress(emit_progress(progress_calls, 50), 100)
                    /\ out_file' = ImageFile(env.src, sw, sh, dpi_tag(req.dpi))
                    /\ out_content' = whole(<<sw, sh>>)
                    /\ out_writer' = run_no
                    /\ preview_calls' = emit_preview(preview_calls, "out_path")
                    /\ outcome' = "returned"
                    /\ UNCHANGED error
            /\ UNCHANGED <<callVars, checks, via_save, tilesize, geomVars, workdir, files,
                           passVars, workerVars>>

\* lines 451-463: mkdtemp, the try block opens, progress 5
begin_upscale ==
    /\ Alive
    /\ pc = "early_exit_check"
    /\ ~keep_native
    /\ IF escapes(progress_raises)
       THEN callback_abort
       ELSE
            /\ pc' = "pass1"
            /\ workdir' = "present"
            /\ cur' = "src"
            /\ progress_calls' = emit_progress(progress_calls, 5)
            /\ UNCHANGED <<callVars, checks, via_save, outcome, error, tilesize, tw, th, sw,
                           sh, files, outVars, passVars, preview_calls, workerVars>>

-----------------------------------------------------------------------------
(* Passes *)

PassName(p) == IF p = 1 THEN "pass1" ELSE "pass2"
PassScale(p) == IF p = 1 THEN 4 ELSE 2
base_pct(p) == IF p = 1 THEN 5 ELSE 60
step_pct(p) == IF p = 1 THEN 55 ELSE 25

\* need_scale > 3.2 before pass 1, need_scale > 1.6 before pass 2
pass_needed(p) ==
    IF p = 1 THEN need_exceeds(tw, th, sw, sh, 32, 10)
    ELSE need_exceeds(tw, th, sw, sh, 16, 10)

\* lines 467-483 and 492-508, up to the retry loop of _run_ncnn_with_retry
schedule_pass ==
    /\ Alive
    /\ pc \in {"pass1", "pass2"}
    /\ LET p == IF pc = "pass1" THEN 1 ELSE 2
       IN  IF pass_needed(p)
           THEN /\ pc' = "attempt"
                /\ pass_no' = p
                /\ attempt' = 0
                /\ safe_tile' = clamp_tile(tilesize)
                /\ slept' = FALSE
           ELSE /\ pc' = IF p = 1 THEN "pass2" ELSE "final"
                /\ UNCHANGED <<pass_no, attempt, safe_tile, slept>>
    /\ UNCHANGED <<callVars, checks, via_save, outcome, error, tilesize, geomVars,
                   fsVars, last_progress, out_lines, streamed, proc, ret, cmds,
                   cbVars, workerVars>>

\* the flag kept on every attempt
use_fp16_always(fp16, att) == fp16

\* the flag dropped on the second attempt only
use_fp16_not_second(fp16, att) == fp16 /\ att # 1

\* the -x flag of an attempt
use_fp16(fp16, att) == fp16 /\ att = 0

\* a halving without the floor
next_tile_unfloored(t) == t \div 2

\* the tile size of the next attempt after an invalid output
next_tile(t) == Max(64, t \div 2)

\* an attempt that leaves the output path as it finds it
unlink_skipped(f) == f

\* lines 207-208: what is at the output path once the attempt has removed
\* whatever file f was there
unlink(f) == NoFile

\* the engine output the error of a failed pass carries in its message,
\* Unset if it carries none: line 288 puts stdout_text (here its number of
\* lines) into the exit-code message, lines 299 and 306 put nothing of it
\* into the invalid-PNG message
error_output(err, lines) ==
    IF err = "RuntimeError: exit code" THEN lines ELSE Unset

\* the failed attempt is followed by time.sleep(1): only an exception is
\* handled at lines 315-319, the exit-code and the invalid-output failures
\* go on with `continue` at lines 293 and 304
sleeps_before_retry(err) == err \in {"OSError: Popen", "Exception: stream"}

\* a retry test that is off by one: a fourth attempt is allowed
retry_or_raise_extra(err) ==
    IF attempt < max_retries
    THEN /\ attempt' = attempt + 1
         /\ slept' = sleeps_before_retry(err)
         /\ pc' = "attempt"
         /\ UNCHANGED <<outcome, error>>
    ELSE /\ pc' = "cleanup"
         /\ outcome' = "raised"
         /\ error' = err
         /\ slept' = FALSE
         /\ UNCHANGED attempt

\* the attempt failed: next iteration, or the exception leaves the pass
\* (lines 291-295, 300-306, 315-322)
retry_or_raise(err) ==
    IF attempt < max_retries - 1
    THEN /\ attempt' = attempt + 1
         /\ slept' = sleeps_before_retry(err)
         /\ pc' = "attempt"
         /\ UNCHANGED <<outcome, error>>
    ELSE /\ pc' = "cleanup"
         /\ outcome' = "raised"
         /\ error' = err
         /\ slept' = FALSE
         /\ UNCHANGED attempt

\* lines 202-254: remove stale output, build the command, Popen, first value
start_attempt ==
    /\ Alive
    /\ pc = "attempt"
    /\ IF escapes(progress_raises)
       THEN callback_abort
       ELSE
            /\ files' = [files EXCEPT ![PassName(pass_no)] = unlink(@)]
            /\ \/ /\ cmds' = Append(cmds, [pass |-> pass_no, attempt |-> attempt,
                                           input |-> cur, scale |-> PassScale(pass_no),
                                           tile |-> safe_tile,
                                           x |-> use_fp16(req.fp16, attempt)])
                  /\ proc' = "running"
                  /\ out_lines' = 0
                  /\ UNCHANGED streamed
                  /\ last_progress' = base_pct(pass_no)
                  /\ progress_calls' = emit_progress(progress_calls, base_pct(pass_no) + 1)
                  /\ pc' = "stream"
                  /\ slept' = FALSE
                  /\ UNCHANGED <<outcome, error, attempt>>
               \/ \* Popen raises
                  /\ env.engine = "any"
                  /\ retry_or_raise("OSError: Popen")
                  /\ UNCHANGED <<cmds, proc, out_lines, streamed, last_progress,
                                 progress_calls>>
            /\ UNCHANGED <<callVars, checks, via_save, tilesize, geomVars, workdir, outVars,
                           pass_no, safe_tile, ret, preview_calls, workerVars>>

\* percentages the engine prints; NoPct is a line without a marker
NoPct == 0 - 1
Pcts == {NoPct, 50, 100, 999}

\* the value a streamed percentage maps to
mapped_progress(p, pct) ==
    Max(base_pct(p),
        Min(base_pct(p) + step_pct(p),
            base_pct(p) + py_round(pct * step_pct(p), 100)))

\* lines 257-277: one line of engine output
stream_line ==
    /\ Alive
    /\ pc = "stream"
    /\ env.chatty
    /\ streamed < MaxLines
    /\ IF escapes(progress_raises)
       THEN callback_abort
       ELSE
            /\ streamed' = streamed + 1
            /\ out_lines' = out_lines + 1
            /\ \E pct \in Pcts :
                  IF pct # NoPct /\ mapped_progress(pass_no, pct) > last_progress
                  THEN /\ progress_calls' =
                              emit_progress(progress_calls, mapped_progress(pass_no, pct))
                       /\ last_progress' = mapped_progress(pass_no, pct)
                  ELSE UNCHANGED <<progress_calls, last_progress>>
            /\ UNCHANGED <<callVars, checks, pc, via_save, outcome, error, tilesize,
                           geomVars, fsVars, pass_no, attempt, safe_tile, proc, ret, slept,
                           cmds, preview_calls, workerVars>>

\* lines 281-284: reading the stream raises; kill the engine, re-raise
stream_exception ==
    /\ Alive
    /\ pc = "stream"
    /\ env.engine = "any"
    /\ proc' = "killed"
    /\ retry_or_raise("Exception: stream")
    /\ UNCHANGED <<callVars, checks, via_save, tilesize, geomVars, fsVars, pass_no,
                   safe_tile, last_progress, out_lines, streamed, ret, cmds, cbVars,
                   workerVars>>

\* pixel sizes the engine may give its output: the nominal multiple, or not
EngineDims(w, h, s) == {<<w * s, h * s>>, <<w, h>>}

\* the fixed size of the image the tests' MockPopen writes
MockDims == <<16, 16>>

\* what the engine leaves at the output path when it exits with `code`
EngineOutputs(code, x) ==
    LET s == PassScale(pass_no)
    IN  IF env.engine = "mock"
        THEN {ImageFile(IF x THEN "black" ELSE "valid", d[1], d[2], 0) :
                d \in {<<sw * s, sh * s>>, MockDims}}
        ELSE IF code # 0
        THEN {NoFile, ImageFile("valid", sw * s, sh * s, 0)}
        ELSE {NoFile, ImageFile("empty", 0, 0, 0), ImageFile("garbage", 0, 0, 0),
              ImageFile("black", sw * s, sh * s, 0),
              ImageFile("corrupt", sw * s, sh * s, 0)}
             \cup {ImageFile("valid", d[1], d[2], 0) : d \in EngineDims(sw, sh, s)}

ExitCodes == IF env.engine = "mock" THEN {0} ELSE {0, 1}

\* the attempt's verdict once the engine has exited
attempt_ok(code, f) == code = 0 /\ validate_png_output(f)

\* lines 279, 286-313: the engine exits; exit code and output are judged
engine_exit ==
    /\ Alive
    /\ pc = "stream"
    /\ IF escapes(progress_raises)
       THEN callback_abort
       ELSE
            /\ proc' = "exited"
            /\ \E code \in ExitCodes :
               \E f \in EngineOutputs(code, cmds[Len(cmds)].x) :
                  /\ ret' = code
                  /\ files' = [files EXCEPT ![PassName(pass_no)] = f]
                  /\ IF attempt_ok(code, f)
                     THEN /\ progress_calls' =
                                emit_progress(progress_calls,
                                              base_pct(pass_no) + step_pct(pass_no))
                          /\ pc' = "pass_done"
                          /\ UNCHANGED <<outcome, error, attempt, safe_tile, slept>>
                     ELSE IF code # 0
                     THEN /\ retry_or_raise("RuntimeError: exit code")
                          /\ UNCHANGED <<progress_calls, safe_tile>>
                     ELSE /\ retry_or_raise("RuntimeError: invalid PNG")
                          /\ safe_tile' = IF attempt < max_retries - 1
                                          THEN next_tile(safe_tile) ELSE safe_tile
                          /\ UNCHANGED progress_calls
            /\ UNCHANGED <<callVars, checks, via_save, tilesize, geomVars, workdir, outVars,
                           pass_no, last_progress, out_lines, streamed, cmds,
                           preview_calls, workerVars>>

\* a pass that hands its input back
ai_pass_result_input(cur_img, out_img) == cur_img

\* the path _ai_pass returns (line 367), which becomes the current image
ai_pass_result(cur_img, out_img) == out_img

\* the file a path of the run names
FileAt(path) == IF path = "src" THEN SrcFile ELSE files[path]

\* _ai_pass lines 357-367, then lines 485-489 / 510-514: preview, new size
pass_done ==
    /\ Alive
    /\ pc = "pass_done"
    /\ IF escapes(preview_raises)
       THEN callback_abort
       ELSE
            /\ preview_calls' = emit_preview(preview_calls, PassName(pass_no))
            /\ cur' = ai_pass_result(cur, PassName(pass_no))
            /\ sw' = FileAt(cur').w
            /\ sh' = FileAt(cur').h
            /\ pc' = IF pass_no = 1 THEN "pass2" ELSE "final"
            /\ UNCHANGED <<callVars, checks, via_save, outcome, error, tilesize, tw, th,
                           fsVars, passVars, progress_calls, workerVars>>

-----------------------------------------------------------------------------
(* Final resample, validation, cleanup *)

\* lines 516-533: open the current image, resize to the target, save at out_path
final_resample ==
    /\ Alive
    /\ pc = "final"
    /\ IF escapes(progress_raises)
       THEN callback_abort
       ELSE
            /\ IF CurFile.kind = "corrupt"
               THEN \* convert / resize cannot decode the pixel data
                    /\ progress_calls' = emit_progress(progress_calls, 85)
                    /\ pc' = "cleanup"
                    /\ outcome' = "raised"
                    /\ error' = "OSError: decode"
                    /\ UNCHANGED outVars
               ELSE IF tw <= 0 \/ th <= 0
               THEN \* resize refuses a size that is not positive
                    /\ progress_calls' = emit_progress(progress_calls, 85)
                    /\ pc' = "cleanup"
                    /\ outcome' = "raised"
                    /\ error' = "ValueError: resize"
                    /\ UNCHANGED outVars
               ELSE /\ progress_calls' =
                            emit_progress(emit_progress(progress_calls, 85), 95)
                    /\ LET sz == resize(tw, th, sw, sh)
                       IN  /\ out_file' = ImageFile(CurFile.kind, sz[1], sz[2],
                                                    dpi_tag(req.dpi))
                           /\ out_content' = whole(sz)
                    /\ out_writer' = run_no
                    /\ pc' = "final_validate"
                    /\ UNCHANGED <<outcome, error>>
            /\ UNCHANGED <<callVars, checks, via_save, tilesize, geomVars, workdir, files,
                           passVars, preview_calls, workerVars>>

\* lines 535-544: validate the saved output, final preview, progress 100
final_validate ==
    /\ Alive
    /\ pc = "final_validate"
    /\ IF escapes(validate_png_output(out_file) /\ (progress_raises \/ preview_raises))
       THEN callback_abort
       ELSE
            /\ pc' = "cleanup"
            /\ IF validate_png_output(out_file)
               THEN /\ preview_calls' = emit_preview(preview_calls, "out_path")
                    /\ progress_calls' = emit_progress(progress_calls, 100)
                    /\ outcome' = "returned"
                    /\ UNCHANGED error
               ELSE /\ outcome' = "raised"
                    /\ error' = "RuntimeError: final output invalid"
                    /\ UNCHANGED cbVars
            /\ UNCHANGED <<callVars, checks, via_save, tilesize, geomVars, fsVars, passVars,
                           workerVars>>

\* lines 546-551: the finally block (rmtree is taken to succeed)
cleanup ==
    /\ Alive
    /\ pc = "cleanup"
    /\ pc' = "done"
    /\ workdir' = "removed"
    /\ files' = [p \in DOMAIN files |-> NoFile]
    /\ UNCHANGED <<callVars, checks, via_save, outcome, error, tilesize, geomVars,
                   outVars, passVars, cbVars, workerVars>>

-----------------------------------------------------------------------------
(* ProcessWorker and the main window's cancel button *)

\* ProcessWorker.run after process_exact came back (lines 115-125)
worker_finish ==
    /\ req.worker
    /\ thread = "running"
    /\ pc = "done"
    /\ thread' = "finished"
    /\ finished' =
          Append(finished,
                 IF outcome = "raised"
                 THEN <<FALSE, "", error>>
                 ELSE IF should_stop
                 THEN <<FALSE, "", "Processing was cancelled">>
                 ELSE <<TRUE, "out_path", "">>)
    /\ UNCHANGED <<callVars, checks, pc, via_save, outcome, error, tilesize,
                   geomVars, fsVars, passVars, cbVars, should_stop, stop_mark,
                   windowVars, batchVars>>

\* MainWindow._cancel_processing lines 802-804: worker.stop()
stop ==
    /\ req.worker
    /\ thread = "running"
    /\ ~should_stop
    /\ should_stop' = TRUE
    /\ stop_mark' = <<[cmds |-> Len(cmds), proc |-> proc,
                       progress |-> Len(progress_calls), pc |-> pc]>>
    /\ UNCHANGED <<callVars, checks, pc, via_save, outcome, error, tilesize,
                   geomVars, fsVars, passVars, cbVars, thread, finished, windowVars,
                   batchVars>>

\* MainWindow._cancel_processing lines 805-810: the 5 s wait ran out
terminate ==
    /\ req.worker
    /\ thread = "running"
    /\ should_stop
    /\ thread' = "terminated"
    /\ processing' = FALSE
    /\ UNCHANGED <<callVars, checks, pc, via_save, outcome, error, tilesize,
                   geomVars, fsVars, passVars, cbVars, should_stop, stop_mark,
                   finished, delivered, target_value, batchVars>>

\* the writer of out_path that is the second, concurrent run
OtherRun == MaxRuns + 1

\* the second run of process_exact, with the same stem, paper, DPI and
\* output directory and so the same out_path (lines 429-431), saves its
\* final image (line 533) while this run executes
concurrent_save ==
    /\ env.other # "none"
    /\ Alive
    /\ pc \notin {"idle", "done"}
    /\ out_writer # OtherRun
    /\ LET sz == target_pixels(req.paper, req.dpi, req.portrait)
       IN  /\ out_file' = ImageFile(env.other, sz[1], sz[2], dpi_tag(req.dpi))
           /\ out_content' = whole(sz)
    /\ out_writer' = OtherRun
    /\ UNCHANGED <<callVars, checks, pc, via_save, outcome, error, tilesize,
                   geomVars, workdir, files, passVars, cbVars, workerVars>>

\* a new call with the same arguments: the locals of the call start afresh,
\* the output directory is as the earlier call left it
new_call(prior) ==
    /\ run_no' = run_no + 1
    /\ prior_writer' = prior
    /\ pc' = "idle"
    /\ via_save' = FALSE
    /\ outcome' = "none"
    /\ error' = ""
    /\ tilesize' = req.tilesize
    /\ tw' = 0 /\ th' = 0 /\ sw' = 0 /\ sh' = 0
    /\ cur' = "src"
    /\ workdir' = "none"
    /\ files' = [p \in {"pass1", "pass2"} |-> NoFile]
    /\ checks' = <<>>
    /\ pass_no' = 0
    /\ attempt' = 0
    /\ safe_tile' = 0
    /\ last_progress' = 0
    /\ out_lines' = 0
    /\ streamed' = 0
    /\ proc' = "none"
    /\ ret' = Unset
    /\ slept' = FALSE
    /\ cmds' = <<>>
    /\ progress_calls' = <<>>
    /\ preview_calls' = <<>>
    /\ UNCHANGED <<req, env>>

\* the caller makes the same call once more
rerun ==
    /\ thread = "direct"
    /\ pc = "done"
    /\ run_no < req.runs
    /\ new_call(out_writer)
    /\ UNCHANGED <<outVars, workerVars>>

\* the progress signals ProcessWorker has emitted: progress_wrapper emits
\* every value it is called with until stop() was called (lines 96-99)
ProgressSignals ==
    IF stop_mark = <<>> THEN progress_calls
    ELSE SubSeq(progress_calls, 1, stop_mark[1].progress)

\* SmoothProgressBar.setValueSmooth (lines 143-158): the new _target_value
set_value_smooth(target, value) ==
    LET v == Max(0, Min(100, value))
    IN  IF v <= target THEN target ELSE v

\* the main window handles the next queued progress signal of the worker
\* (line 794: progress is connected to setValueSmooth)
on_progress ==
    /\ req.worker
    /\ delivered < Len(ProgressSignals)
    /\ delivered' = delivered + 1
    /\ target_value' = set_value_smooth(target_value, ProgressSignals[delivered + 1])
    /\ UNCHANGED <<callVars, checks, pc, via_save, outcome, error, tilesize,
                   geomVars, fsVars, passVars, cbVars, should_stop, stop_mark,
                   thread, finished, processing, batchVars>>

\* MainWindow._on_finished (lines 847-852), handled after the progress
\* signals queued before it
on_finished ==
    /\ thread = "finished"
    /\ processing
    /\ delivered = Len(ProgressSignals)
    /\ processing' = FALSE
    /\ target_value' = IF finished[1][1] THEN set_value_smooth(target_value, 100)
                       ELSE target_value
    /\ UNCHANGED <<callVars, checks, pc, via_save, outcome, error, tilesize,
                   geomVars, fsVars, passVars, cbVars, should_stop, stop_mark,
                   thread, finished, delivered, batchVars>>

\* MainWindow._run once more in the same window (lines 769-798): a new
\* ProcessWorker for the same arguments; the bar is the window's
run_again ==
    /\ req.worker
    /\ ~processing
    /\ thread \in {"finished", "terminated"}
    /\ delivered = Len(ProgressSignals)
    /\ run_no < req.runs
    /\ new_call(out_writer)
    /\ should_stop' = FALSE
    /\ stop_mark' = <<>>
    /\ thread' = "created"
    /\ finished' = <<>>
    /\ delivered' = 0
    /\ UNCHANGED <<outVars, processing, target_value, batchVars>>

-----------------------------------------------------------------------------
(* JobController and UpscaleWorker *)

\* a controller that never finds its worker running
worker_is_running_never == FALSE

\* `self.worker and self.worker.isRunning()` (job_controller lines 26, 33)
worker_is_running == thread = "running"

\* JobController.start (lines 25-30)
jc_start ==
    /\ req.batch
    /\ Len(jc_calls) < MaxCalls
    /\ jc_calls' = Append(jc_calls, "start")
    /\ IF worker_is_running
       THEN UNCHANGED <<thread, bpc, idx, cancel_flag, signals, workers, running>>
       ELSE /\ workers' = workers + 1
            /\ running' = running + 1
            /\ thread' = "running"
            /\ bpc' = "check"
            /\ idx' = 0
            /\ cancel_flag' = FALSE
            /\ signals' = <<>>
    /\ UNCHANGED <<callVars, checks, pc, via_save, outcome, error, tilesize, geomVars,
                   fsVars, passVars, cbVars, should_stop, stop_mark, finished,
                   windowVars>>

\* JobController.cancel (lines 32-34), UpscaleWorker.cancel (lines 23-24)
jc_cancel ==
    /\ req.batch
    /\ Len(jc_calls) < MaxCalls
    /\ jc_calls' = Append(jc_calls, "cancel")
    /\ cancel_flag' = IF worker_is_running THEN TRUE ELSE cancel_flag
    /\ UNCHANGED <<callVars, checks, pc, via_save, outcome, error, tilesize, geomVars,
                   fsVars, passVars, cbVars, should_stop, stop_mark, thread, finished,
                   windowVars, bpc, idx, signals, workers, running>>

\* the number of files of the batch
total == req.runs

\* a loop that does not look at the cancel flag
loop_continues_blind(i, n, cancelled) == i # n

\* the loop takes up a further file: one is left after the i files done,
\* and the cancel flag is not set (lines 28-30)
loop_continues(i, n, cancelled) == i # n /\ ~cancelled

\* UpscaleWorker.run lines 28-30: next file, unless none is left or the
\* cancel flag is found set
loop_check ==
    /\ thread = "running"
    /\ bpc = "check"
    /\ IF loop_continues(idx, total, cancel_flag)
       THEN /\ bpc' = "start"
            /\ idx' = idx + 1
       ELSE /\ bpc' = "all_done"
            /\ UNCHANGED idx
    /\ UNCHANGED <<callVars, checks, pc, via_save, outcome, error, tilesize, geomVars,
                   fsVars, passVars, cbVars, should_stop, stop_mark, thread, finished,
                   windowVars, cancel_flag, signals, jc_calls, workers, running>>

Signal(sig, file, value) == [sig |-> sig, file |-> file, value |-> value]

\* lines 32-47: file_started, the output name (default_output_namer gives a
\* name no file has), the call of process_and_save
file_start ==
    /\ thread = "running"
    /\ bpc = "start"
    /\ signals' = Append(signals, Signal("file_started", idx, 0))
    /\ bpc' = "file"
    /\ new_call(0)
    /\ out_file' = NoFile
    /\ out_content' = NoBox
    /\ out_writer' = 0
    /\ UNCHANGED <<should_stop, stop_mark, thread, finished, windowVars, idx,
                   cancel_flag, jc_calls, workers, running>>

\* the value sent once process_and_save came back (line 54)
batch_progress(i, n) == (i * 100) \div n

\* lines 54-57: process_and_save came back, or raised
file_end ==
    /\ thread = "running"
    /\ bpc = "file"
    /\ pc = "done"
    /\ signals' =
          IF outcome = "returned"
          THEN Append(Append(signals,
                             Signal("file_progress", idx, batch_progress(idx, total))),
                      Signal("file_done", idx, 0))
          ELSE Append(signals, Signal("error", idx, 0))
    /\ bpc' = "check"
    /\ UNCHANGED <<callVars, checks, pc, via_save, outcome, error, tilesize, geomVars,
                   fsVars, passVars, cbVars, should_stop, stop_mark, thread, finished,
                   windowVars, idx, cancel_flag, jc_calls, workers, running>>

\* line 58: all_done, run() ends and with it the thread
all_done ==
    /\ thread = "running"
    /\ bpc = "all_done"
    /\ signals' = Append(signals, Signal("all_done", 0, 0))
    /\ bpc' = "end"
    /\ thread' = "finished"
    /\ running' = running - 1
    /\ UNCHANGED <<callVars, checks, pc, via_save, outcome, error, tilesize, geomVars,
                   fsVars, passVars, cbVars, should_stop, stop_mark, finished,
                   windowVars, idx, cancel_flag, jc_calls, workers>>

-----------------------------------------------------------------------------

Next ==
    \/ call
    \/ process_and_save
    \/ process_exact_entry
    \/ validate_setup
    \/ compute_target
    \/ early_exit
    \/ begin_upscale
    \/ schedule_pass
    \/ start_attempt
    \/ stream_line
    \/ stream_exception
    \/ engine_exit
    \/ pass_done
    \/ final_resample
    \/ final_validate
    \/ cleanup
    \/ worker_finish
    \/ stop
    \/ terminate
    \/ rerun
    \/ concurrent_save
    \/ on_progress
    \/ on_finished
    \/ run_again
    \/ jc_start
    \/ jc_cancel
    \/ loop_check
    \/ file_start
    \/ file_end
    \/ all_done

Spec == Init /\ [][Next]_vars

-----------------------------------------------------------------------------
(* Properties *)

Last(seq) == seq[Len(seq)]

\* the paper the request resolves to ("" when process_and_save finds none)
ReqPaper ==
    IF req.entry = "process_exact" THEN req.paper
    ELSE paper_key(req.size_mm[1], req.size_mm[2])

\* the call takes process_and_save's custom-size branch
CustomSize == req.entry # "process_exact" /\ ReqPaper = ""

\* errors raised by a pass after its last attempt
PassErrors == {"OSError: Popen", "Exception: stream", "RuntimeError: exit code",
               "RuntimeError: invalid PNG"}

\* commands of pass p
PassCmds(p) == {i \in 1..Len(cmds) : cmds[i].pass = p}

\* C1: across one run the values delivered to progress_cb never decrease
C1_ProgressNonDecreasing ==
    \A i \in 1..(Len(progress_calls) - 1) :
        progress_calls[i] <= progress_calls[i + 1]

\* C2: a run of process_exact that returned (early exit or upscaling path)
\* has delivered at least one progress value, the last one is 100, and no
\* value is delivered after the return (until the caller calls again)
C2_ReturnEndsAt100 ==
    /\ [](outcome = "returned" /\ ~CustomSize =>
            /\ Len(progress_calls) >= 1
            /\ Last(progress_calls) = 100)
    /\ [][(outcome = "returned" /\ run_no' = run_no) =>
              progress_calls' = progress_calls]_vars

C2_Witness ==
    /\ outcome = "returned"
    /\ Len(cmds) >= 2
    /\ Last(progress_calls) = 100

\* a well-formed request with fp16 on, served by the mock engine
MockFp16Run ==
    /\ env.engine = "mock"
    /\ req.fp16
    /\ req.entry # "legacy"
    /\ env.setup = "ok"
    /\ env.src = "valid"
    /\ ~(req.dpi = 600 /\ ~req.force_600dpi)
    /\ CustomSize \/ paper_supported(ReqPaper)

\* a step of the pipeline itself (not of the worker or the user)
PipelineStep ==
    \/ call \/ process_and_save \/ process_exact_entry \/ validate_setup
    \/ compute_target \/ early_exit \/ begin_upscale \/ schedule_pass
    \/ start_attempt \/ engine_exit \/ pass_done \/ final_resample
    \/ final_validate \/ cleanup

\* C3: with an engine that exits 0 and writes a black image iff -x is given,
\* a run with fp16 on (well-formed request, decodable non-blank source) never
\* raises and never gets stuck: every pass fails validation on its first
\* attempt (with -x), succeeds on its second (without -x), and the run ends
\* returned with a valid, non-blank output
C3_Fp16RetrySucceeds ==
    MockFp16Run =>
        /\ outcome # "raised"
        /\ (pc # "done" /\ Alive) => ENABLED PipelineStep
        /\ \A i \in 1..Len(cmds) :
              /\ cmds[i].attempt <= 1
              /\ cmds[i].x = (cmds[i].attempt = 0)
        /\ pc = "pass_done" => attempt = 1
        /\ pc = "done" =>
              /\ outcome = "returned"
              /\ out_file.kind = "valid"

C3_Witness ==
    /\ MockFp16Run
    /\ pc = "done"
    /\ outcome = "returned"
    /\ Len(cmds) = 4
    /\ out_file.kind = "valid"

\* C4: a pass returns success only after exit code 0 with an output that
\* exists, is non-empty, decodable and not blank; no other artifact is ever
\* the current image of a later pass or of the final resample
C4_SuccessOnlyIfValid ==
    /\ pc = "pass_done" =>
          /\ ret = 0
          /\ files[PassName(pass_no)].kind = "valid"
    /\ (cur # "src" /\ workdir = "present") => files[cur].kind = "valid"

\* C5: a pass starts the engine at most 3 times, and an error of a pass
\* reaches the caller only from the third attempt; it then fails the run
\* with no output written
C5_ThreeAttempts ==
    /\ \A p \in {1, 2} : Cardinality(PassCmds(p)) <= 3
    /\ \A i \in 1..Len(cmds) : cmds[i].attempt <= 2
    /\ pc = "attempt" => attempt <= 2
    /\ (outcome = "raised" /\ error \in PassErrors) =>
          /\ attempt = 2
          /\ pc \in {"cleanup", "done"}
          /\ out_file = NoFile

C5_Witness ==
    /\ pc = "done"
    /\ outcome = "raised"
    /\ error = "RuntimeError: invalid PNG"
    /\ Cardinality(PassCmds(2)) = 3

\* C6: DPI 600 without the force flag is rejected before any engine start
\* and before any output is written, through every entry point
C6_Dpi600Rejected ==
    (req.dpi = 600 /\ ~req.force_600dpi) =>
        /\ cmds = <<>>
        /\ out_file = NoFile
        /\ outcome # "returned"

\* the source is at least as large as the target, and keeping it was asked for
EarlyExitCase ==
    /\ req.keep_native_if_larger
    /\ tw > 0
    /\ env.size[1] >= tw
    /\ env.size[2] >= th

\* C7: with keep_native_if_larger and a source at least as large as the
\* target, the engine is never started, no workspace is created, and the
\* output has the source's pixel size
C7_KeepNativeSkipsEngine ==
    EarlyExitCase =>
        /\ cmds = <<>>
        /\ workdir = "none"
        /\ pc \in {"early_exit_check", "done"}
        /\ outcome = "returned" =>
              /\ out_file.kind # "absent"
              /\ out_file.w = env.size[1]
              /\ out_file.h = env.size[2]

C7_Witness ==
    /\ EarlyExitCase
    /\ outcome = "returned"
    /\ out_file.kind = "valid"
    /\ out_file.w = 2000

\* C8: once a run that created a workspace has ended (returned, raised or
\* cancelled), the workspace and its artifacts are gone
C8_WorkspaceRemoved ==
    ((pc = "done" \/ thread = "terminated") /\ workdir # "none") =>
        /\ workdir = "removed"
        /\ \A p \in DOMAIN files : files[p] = NoFile

\* C9: a run that ended in failure has left no file at the output path
C9_NoOutputOnFailure ==
    (pc = "done" /\ outcome = "raised") => out_file = NoFile

\* stop() was called while an engine process was running
StoppedDuringPass == stop_mark # <<>> /\ stop_mark[1].proc = "running"

\* C10: after stop() during a pass, the worker ends having killed the
\* engine, started no further attempt, written no output, and reports a
\* non-success outcome
C10_CancelStopsRun ==
    (thread = "finished" /\ StoppedDuringPass) =>
        /\ Len(cmds) = stop_mark[1].cmds
        /\ proc = "killed"
        /\ out_file = NoFile
        /\ Len(finished) = 1
        /\ finished[1][1] = FALSE

-----------------------------------------------------------------------------
(* Setup checks, pass plan, final composition *)

\* a setup check of this call has raised
SetupFailed == checks # <<>> /\ failing_check(env.setup) # 0

\* C11: the engine is started only after the executable check, the models
\* folder check and the model files check have all passed, in that order;
\* no check is made twice in a call, and a call whose check failed ends
\* raised with that check's error and without any engine start
C11_SetupBeforeEngine ==
    /\ cmds # <<>> => (env.setup = "ok" /\ checks = setup_checks)
    /\ Len(checks) <= Len(setup_checks)
    /\ \A i \in 1..Len(checks) : checks[i] = setup_checks[i]
    /\ SetupFailed =>
          /\ pc = "done"
          /\ outcome = "raised"
          /\ error = setup_errors[failing_check(env.setup)]
          /\ Len(checks) = failing_check(env.setup)
          /\ cmds = <<>>

C11_Witness ==
    /\ env.setup = "no_model_files"
    /\ checks = setup_checks
    /\ outcome = "raised"
    /\ cmds = <<>>

\* positions at which the pass pass_no is being run on the image of size
\* (sw, sh)
InPass == pc \in {"attempt", "stream", "pass_done"}

\* C12: a 4x pass is run only on need > 3.2, a 2x pass only on
\* 1.6 < need <= 3.2, and the final resample is reached only on
\* need <= 1.6, need being taken from the current image's actual size
C12_OnePassRule ==
    /\ (InPass /\ PassScale(pass_no) = 4) =>
          need_exceeds(tw, th, sw, sh, 32, 10)
    /\ (InPass /\ PassScale(pass_no) = 2) =>
          /\ need_exceeds(tw, th, sw, sh, 16, 10)
          /\ ~need_exceeds(tw, th, sw, sh, 32, 10)
    /\ pc = "final" => ~need_exceeds(tw, th, sw, sh, 16, 10)

\* the orientation the request resolves to
ReqPortrait ==
    IF req.entry = "process_exact" THEN req.portrait
    ELSE req.size_mm[1] <= req.size_mm[2]

\* the call went down the upscaling path (it created a workspace)
UpscalePath == workdir # "none"

\* C13: a call of process_exact that returned from the upscaling path has
\* written an image of exactly target_pixels(paper, dpi, portrait) pixels,
\* whatever the source's size and whatever sizes the engine produced
C13_ExactTargetSize ==
    (outcome = "returned" /\ ~CustomSize /\ UpscalePath) =>
        /\ out_file.kind \notin {"absent", "empty"}
        /\ <<out_file.w, out_file.h>> =
              target_pixels(ReqPaper, req.dpi, ReqPortrait)

C13_Witness ==
    /\ env.engine = "any"
    /\ env.size = <<200, 200>>
    /\ outcome = "returned"
    /\ Len(cmds) >= 2
    /\ out_file.w = 1754
    /\ out_file.h = 2480

\* the picture of size (s_w, s_h) keeps its proportions inside box, up to
\* one pixel of rounding, touches two opposite edges of the (c_w, c_h)
\* canvas and is centred on it
fits_centred(box, c_w, c_h, s_w, s_h) ==
    LET d == box[3] * s_h - box[4] * s_w
    IN  /\ d <= Max(s_w, s_h)
        /\ 0 - d <= Max(s_w, s_h)
        /\ box[3] <= c_w
        /\ box[4] <= c_h
        /\ box[3] = c_w \/ box[4] = c_h
        /\ box[1] = (c_w - box[3]) \div 2
        /\ box[2] = (c_h - box[4]) \div 2

\* C14: with fit_mode FIT in the settings, the picture in the output a call
\* has written keeps the source's proportions, scaled by
\* min(target_w/src_w, target_h/src_h), and sits centred on the canvas
C14_FitCentred ==
    (req.fit_mode = "Fit" /\ outcome = "returned" /\ out_writer = run_no) =>
        fits_centred(out_content, out_file.w, out_file.h,
                     env.size[1], env.size[2])

\* C15: the output of a call that returned carries the requested DPI, on
\* the early-exit path, the upscaling path and the custom-size path
C15_DpiTagged ==
    outcome = "returned" =>
        /\ out_file.kind # "absent"
        /\ out_file.dpi = req.dpi

C15_Witness ==
    /\ outcome = "returned"
    /\ UpscalePath
    /\ req.dpi = 600
    /\ out_file.dpi = 600

\* C16: a file that was at the output name when the call began is never
\* written by the call
C16_ExistingOutputKept ==
    prior_writer # 0 => out_writer = prior_writer

\* C17: a ProcessWorker that was started and has ended, by itself or by
\* the main window's cancel, has emitted exactly one finished signal, and
\* none is ever emitted twice
C17_OneFinishedSignal ==
    /\ Len(finished) <= 1
    /\ (req.worker /\ thread \in {"finished", "terminated"}) =>
          /\ Len(finished) = 1
          /\ finished[1][1] => finished[1][2] # ""
          /\ ~finished[1][1] => finished[1][3] # ""

\* the callbacks of the call raise (always, or since stop was requested)
RaisingCallbacks == req.cb_raise \/ (req.worker /\ should_stop)

\* C18: with callbacks that raise, no error of a callback ever reaches the
\* caller and the pipeline goes on; on the mock engine with a good source
\* the call makes the engine starts it makes with quiet callbacks (one per
\* pass, two with fp16) and returns with a valid output
C18_CallbackErrorsSwallowed ==
    RaisingCallbacks =>
        /\ error # "RuntimeError: callback"
        /\ (pc # "done" /\ Alive) => ENABLED PipelineStep
        /\ (env.engine = "mock" /\ env.src = "valid" /\ env.setup = "ok") =>
              /\ outcome # "raised"
              /\ \A i \in 1..Len(cmds) :
                    /\ cmds[i].attempt <= (IF req.fp16 THEN 1 ELSE 0)
                    /\ cmds[i].x = (req.fp16 /\ cmds[i].attempt = 0)
              /\ pc = "done" =>
                    /\ outcome = "returned"
                    /\ out_file.kind = "valid"

C18_Witness ==
    /\ req.cb_raise
    /\ pc = "done"
    /\ outcome = "returned"
    /\ Len(cmds) = 4
    /\ Len(progress_calls) >= 8
    /\ Len(preview_calls) = 3

\* C19: both calculators give, per axis, mm / 25.4 * dpi to the nearest
\* integer and at least 1: sizes.target_pixels on explicit millimetres
\* (A1 at 300 DPI, A5 at 150 DPI), and the target process_exact computes
\* from the paper, DPI and orientation
C19_TargetPixels ==
    /\ sizes_target_pixels(594, 841, 300) = <<7016, 9933>>
    /\ sizes_target_pixels(148, 210, 150) = <<874, 1240>>
    /\ pc = "early_exit_check" =>
          LET mm == A_SIZES_MM[lower(Paper)]
              px == sizes_target_pixels(mm[1], mm[2], req.dpi)
          IN  /\ tw >= 1
              /\ th >= 1
              /\ <<tw, th>> = IF Portrait THEN px ELSE <<px[2], px[1]>>

\* C20: the landscape target is the portrait target with its components
\* swapped, swapping twice gives the portrait target back, and the target
\* of the call is the one or the other
C20_LandscapeSwapsPortrait ==
    pc = "early_exit_check" =>
        LET P == target_pixels(Paper, req.dpi, TRUE)
            L == target_pixels(Paper, req.dpi, FALSE)
        IN  /\ L = <<P[2], P[1]>>
            /\ <<L[2], L[1]>> = P
            /\ <<tw, th>> = IF Portrait THEN P ELSE L

C20_Witness ==
    /\ pc = "early_exit_check"
    /\ ~Portrait
    /\ tw = 2480
    /\ th = 1754

-----------------------------------------------------------------------------
(* Paper lookup, legacy call, retry policy, previews, phases, concurrency *)

\* the named sizes a0..a4
NamedPapers == {"a0", "a1", "a2", "a3", "a4"}

\* C21: a named paper outside a0..a4 fails the call with the
\* unsupported-paper error, before any engine start and before any write of
\* the output, and every name of a0..a4, in any case, is accepted
C21_PaperLookup ==
    req.entry = "process_exact" =>
        /\ error = "ValueError: unsupported paper" =>
              /\ lower(req.paper) \notin NamedPapers
              /\ cmds = <<>>
              /\ out_writer # run_no
        /\ (lower(req.paper) \notin NamedPapers /\ pc = "done") =>
              outcome = "raised"

\* C22: the legacy call process_exact(src, settings) returns an image of
\* (round(width_mm / 25.4 * dpi), round(height_mm / 25.4 * dpi)) pixels,
\* for sizes of the paper table and for sizes outside it (given a source
\* that decodes, a working engine setup and a DPI other than 600)
C22_LegacyCallSize ==
    (req.entry = "legacy" /\ pc = "done" /\ env.src \in {"valid", "black"}
        /\ env.setup = "ok" /\ req.dpi # 600) =>
        /\ outcome = "returned"
        /\ <<out_file.w, out_file.h>> =
              custom_pixels(req.size_mm[1], req.size_mm[2], req.dpi)

\* C23: in a pass, the second attempt runs with the first attempt's tile
\* size and without the half-precision flag
C23_OneRelaxationAtATime ==
    \A i, j \in 1..Len(cmds) :
        (cmds[i].pass = cmds[j].pass /\ cmds[i].attempt = 0
            /\ cmds[j].attempt = 1) =>
            /\ ~cmds[j].x
            /\ cmds[j].tile = cmds[i].tile

\* C24: in a pass, no attempt that follows an attempt without the
\* half-precision flag has the flag
C24_Fp16StaysOff ==
    \A i, j \in 1..Len(cmds) :
        (cmds[i].pass = cmds[j].pass /\ i < j /\ ~cmds[i].x) => ~cmds[j].x

C24_Witness ==
    /\ Len(cmds) = 3
    /\ cmds[3].pass = cmds[1].pass
    /\ cmds[1].x
    /\ ~cmds[2].x
    /\ ~cmds[3].x
    /\ ret = 1

\* errors a pass raises after its engine ran and failed
EngineFailures == {"RuntimeError: exit code", "RuntimeError: invalid PNG"}

\* C25: the error of a pass whose every attempt failed carries the engine
\* output captured in the last attempt, after a non-zero exit code and
\* after an invalid output alike
C25_ErrorCarriesOutput ==
    (outcome = "raised" /\ error \in EngineFailures) =>
        error_output(error, out_lines) = out_lines

\* C26: every engine start has a tile size within [64, 512], whatever tile
\* size was requested and after every halving
C26_TileInRange ==
    /\ \A i \in 1..Len(cmds) : cmds[i].tile \in 64..512
    /\ pc \in {"attempt", "stream"} => safe_tile \in 64..512

C26_Witness ==
    /\ req.tilesize = 200
    /\ Len(cmds) = 3
    /\ cmds[1].tile = 200
    /\ cmds[2].tile = 100
    /\ cmds[3].tile = 64

\* C27: while the engine of an attempt runs, the pass's output path holds
\* no file from an earlier attempt
C27_StaleOutputRemoved ==
    pc = "stream" => files[PassName(pass_no)] = NoFile

\* the second attempt runs after a first attempt that left a black image
C27_Witness ==
    /\ pc = "stream"
    /\ attempt = 1
    /\ env.engine = "mock"
    /\ cmds[Len(cmds) - 1].x
    /\ files[PassName(pass_no)] = NoFile

\* pass p has run and its output became the current image
PassSucceeded(p) ==
    /\ PassCmds(p) # {}
    /\ cur = PassName(p) \/ (p = 1 /\ cur = "pass2")

\* C28: a call delivers at most one preview per pass, only for a pass that
\* succeeded, and at most one for the final output, only when it returns
C28_PreviewPerPass ==
    /\ \A i, j \in 1..Len(preview_calls) :
          preview_calls[i] = preview_calls[j] => i = j
    /\ \A i \in 1..Len(preview_calls) :
          /\ preview_calls[i] = "pass1" => PassSucceeded(1)
          /\ preview_calls[i] = "pass2" => PassSucceeded(2)
          /\ preview_calls[i] = "out_path" => outcome = "returned"
    /\ Len(preview_calls) <=
          Cardinality({p \in {1, 2} : PassSucceeded(p)}) + 1

C28_Witness ==
    /\ ~req.cb_raise
    /\ outcome = "returned"
    /\ preview_calls = <<"pass1", "pass2", "out_path">>

\* the phase of a position: 1 Validating, 2 EarlyExitCheck, 3 Passing,
\* 4 Compositing, 5 TaggingDPI, 6 and 7 the end of the run
PhaseRank(p) ==
    CASE p = "idle" -> 0
      [] p \in {"save", "exact", "locate", "target"} -> 1
      [] p = "early_exit_check" -> 2
      [] p \in {"pass1", "pass2", "attempt", "stream", "pass_done"} -> 3
      [] p = "final" -> 4
      [] p = "final_validate" -> 5
      [] p = "cleanup" -> 6
      [] OTHER -> 7

\* ProcessWorker reported the run as cancelled
Cancelled == finished # <<>> /\ finished[1][3] = "Processing was cancelled"

\* C29: a run never goes back to an earlier phase, does nothing more once
\* it is over, and is reported cancelled only if it got to run passes
C29_PhaseOrder ==
    /\ [][run_no' = run_no => PhaseRank(pc') >= PhaseRank(pc)]_vars
    /\ [][(pc = "done" /\ run_no' = run_no) =>
              /\ cmds' = cmds
              /\ outVars' = outVars
              /\ cbVars' = cbVars]_vars
    /\ [](Cancelled => cmds # <<>>)

\* C30: a run that executes at the same time as a second run on the same
\* stem, paper, DPI and output directory ends as it does alone: it returns,
\* and the file it reports is the one it wrote
C30_ConcurrentRunsIndependent ==
    (env.other # "none" /\ pc = "done") =>
        /\ outcome = "returned"
        /\ out_writer = run_no
        /\ out_file.kind = env.src

-----------------------------------------------------------------------------
(* Delay between attempts, progress values, pass chain *)

\* C31: the engine subprocess of a second or third attempt of a pass is
\* started only after the delay step that follows the failed attempt,
\* whatever made that attempt fail: exit code, invalid output or exception
C31_DelayBeforeRetry ==
    [][(pc = "attempt" /\ pc' = "stream" /\ attempt > 0) => slept]_vars

\* C32: no progress value is delivered twice in a run: every value
\* delivered is greater than every value delivered before it
C32_ProgressStrictlyIncreasing ==
    \A i, j \in 1..Len(progress_calls) :
        i < j => progress_calls[i] < progress_calls[j]

\* C33: the final resample is entered only with need <= 1.6, need taken
\* from the size of the last pass's output; while need > 1.6 after a pass,
\* the run goes on to start another pass
C33_ResampleOnlyWhenClose ==
    /\ pc \in {"final", "final_validate"} =>
          ~need_exceeds(tw, th, sw, sh, 16, 10)
    /\ (pc = "pass_done" /\ need_exceeds(tw, th, files[PassName(pass_no)].w,
                                          files[PassName(pass_no)].h, 16, 10)) =>
          pass_no < 2

\* the pass executed before pass p, 0 if p is the first executed
PrevExecuted(p) == IF p = 2 /\ PassCmds(1) # {} THEN 1 ELSE 0

\* the path a pass number names, the source for 0
PassPath(p) == IF p = 0 THEN "src" ELSE PassName(p)

\* the last pass the run has completed, 0 if none
LastCompleted ==
    IF pc \in {"final", "final_validate"}
    THEN (IF PassCmds(2) # {} THEN 2 ELSE IF PassCmds(1) # {} THEN 1 ELSE 0)
    ELSE 0

\* C34: every engine start of a pass reads the output of the pass executed
\* before it (the source for the first pass executed), that output has
\* passed the validation, the passes run in the order 1, 2 with one engine
\* at a time, and the final resample reads the last executed pass's output
C34_PassesChained ==
    /\ \A i \in 1..Len(cmds) :
          /\ cmds[i].input = PassPath(PrevExecuted(cmds[i].pass))
          /\ \A j \in 1..Len(cmds) : i < j => cmds[i].pass <= cmds[j].pass
    /\ (pc \in {"attempt", "stream"} /\ cur # "src") =>
          /\ cur = PassPath(PrevExecuted(pass_no))
          /\ validate_png_output(files[cur])
    /\ pc \in {"final", "final_validate"} => cur = PassPath(LastCompleted)

C34_Witness ==
    /\ pc = "final"
    /\ Len(cmds) = 2
    /\ cmds[1].pass = 1 /\ cmds[1].input = "src"
    /\ cmds[2].pass = 2 /\ cmds[2].input = "pass1"
    /\ cur = "pass2"

-----------------------------------------------------------------------------
(* Cancellation and the custom-size branch *)

\* stop() was called before process_exact came back
StoppedBeforeReturn == stop_mark # <<>> /\ stop_mark[1].pc # "done"

\* C36: a worker whose stop() was called before process_exact returned
\* reports no success, and when it reports, the run has left no final
\* output at the output path
C36_StopMeansNoOutput ==
    (thread = "finished" /\ StoppedBeforeReturn) =>
        /\ Len(finished) = 1
        /\ ~finished[1][1]
        /\ out_writer # run_no
        /\ out_file = NoFile

\* the direct resample's size, per axis mm / 25.4 * dpi to the nearest
\* integer
RoundedPixels(mm, dpi) == py_round(mm * dpi * 10, 254)

\* C39: a call of process_and_save whose settings match no paper of the
\* table never starts the engine, creates no workspace, makes no setup
\* check and delivers no progress or preview value; when it returns it has
\* written one resampled output of (round(w/25.4*dpi), round(h/25.4*dpi))
C39_CustomSizeDirect ==
    (req.entry = "process_and_save" /\ ReqPaper = "") =>
        /\ cmds = <<>>
        /\ workdir = "none"
        /\ checks = <<>>
        /\ progress_calls = <<>>
        /\ preview_calls = <<>>
        /\ pc \in {"idle", "save", "done"}
        /\ (run_no > 0 /\ out_writer = run_no) =>
              /\ outcome = "returned"
              /\ out_file.kind = env.src
              /\ out_file.w = RoundedPixels(req.size_mm[1], req.dpi)
              /\ out_file.h = RoundedPixels(req.size_mm[2], req.dpi)
              /\ out_content = whole(<<out_file.w, out_file.h>>)
        /\ (pc = "done" /\ env.src \in {"valid", "black"}) =>
              /\ outcome = "returned"
              /\ out_writer = run_no

C39_Witness ==
    /\ req.entry = "process_and_save"
    /\ req.size_mm = <<148, 210>>
    /\ req.dpi = 600
    /\ pc = "done"
    /\ outcome = "returned"
    /\ out_file.w = 3496
    /\ out_file.h = 4961

-----------------------------------------------------------------------------
(* The main window's progress bar *)

RECURSIVE SeqMax(_)
\* the greatest value of a sequence of naturals, 0 for the empty one
SeqMax(seq) ==
    IF seq = <<>> THEN 0
    ELSE Max(seq[Len(seq)], SeqMax(SubSeq(seq, 1, Len(seq) - 1)))

\* C37: in every run of the main window, the first and the later ones, the
\* bar's target value is the greatest progress value the bar was given so
\* far in that run (0 before the first), 100 once success was reported
C37_BarFollowsRun ==
    req.worker =>
        target_value =
            IF thread = "finished" /\ ~processing /\ finished[1][1] THEN 100
            ELSE SeqMax(SubSeq(ProgressSignals, 1, delivered))

-----------------------------------------------------------------------------
(* UpscaleWorker's signals and the JobController *)

\* the signals of kind sig emitted for file i
SignalsOf(sig, i) ==
    {k \in 1..Len(signals) : signals[k].sig = sig /\ signals[k].file = i}

\* C35: the file_progress values of the file being processed, those of the
\* pipeline and the one sent after it came back, lie in [0, 100] and never
\* decrease, at every position of the file in the batch
C35_FileProgressMonotone ==
    req.batch =>
        /\ \A i \in 1..Len(progress_calls) : progress_calls[i] \in 0..100
        /\ \A i \in 1..(Len(progress_calls) - 1) :
              progress_calls[i] <= progress_calls[i + 1]
        /\ \A k \in SignalsOf("file_progress", idx) :
              /\ signals[k].value \in 0..100
              /\ \A i \in 1..Len(progress_calls) :
                    progress_calls[i] <= signals[k].value

\* file i of the batch is over
FileOver(i) == i < idx \/ (i = idx /\ bpc \in {"check", "all_done", "end"})

\* what UpscaleWorker.run has emitted is well-formed: each started file has
\* one file_started, before its other signals, and once it is over exactly
\* one of file_done and error; all_done comes once, last, and ends the run
SignalsWellFormed ==
    /\ \A i \in 1..total :
          /\ Cardinality(SignalsOf("file_started", i)) =
                (IF i < idx \/ (i = idx /\ bpc # "start") THEN 1 ELSE 0)
          /\ \A k \in 1..Len(signals) :
                (signals[k].file = i /\ signals[k].sig # "file_started") =>
                    \E j \in SignalsOf("file_started", i) : j < k
          /\ Cardinality(SignalsOf("file_done", i) \cup SignalsOf("error", i)) =
                (IF FileOver(i) THEN 1 ELSE 0)
    /\ Cardinality(SignalsOf("all_done", 0)) = (IF bpc = "end" THEN 1 ELSE 0)
    /\ bpc = "end" => signals[Len(signals)].sig = "all_done"

\* a run that was never cancelled went through every file, failed or not
AllFilesProcessed ==
    (bpc = "end" /\ ~cancel_flag) =>
        \A i \in 1..total : SignalsOf("file_started", i) # {}

StartCall == Len(jc_calls') = Len(jc_calls) + 1 /\ Last(jc_calls') = "start"
CancelCall == Len(jc_calls') = Len(jc_calls) + 1 /\ Last(jc_calls') = "cancel"

\* what makes up the worker and its run
workerState == <<thread, bpc, idx, cancel_flag, signals, workers, running, pc,
                 run_no, progress_calls, cmds, outVars>>

\* C40: at most one UpscaleWorker of the controller runs at any time;
\* start() while the worker runs creates and wires no worker and changes
\* nothing of the running one, start() otherwise creates one worker, and
\* cancel() sets the flag of a running worker and does nothing else
C40_OneWorkerAtATime ==
    /\ [](req.batch =>
            /\ running <= 1
            /\ running = (IF thread = "running" THEN 1 ELSE 0)
            /\ workers <= Len(jc_calls))
    /\ [][(StartCall /\ thread = "running") => workerState' = workerState]_vars
    /\ [][(StartCall /\ thread # "running") =>
              /\ workers' = workers + 1
              /\ thread' = "running"
              /\ ~cancel_flag']_vars
    /\ [][CancelCall =>
              /\ cancel_flag' = (cancel_flag \/ thread = "running")
              /\ <<thread, bpc, idx, signals, workers, running>>' =
                    <<thread, bpc, idx, signals, workers, running>>]_vars

C40_Witness ==
    /\ jc_calls = <<"start", "start">>
    /\ workers = 1
    /\ running = 1
    /\ thread = "running"
    /\ bpc = "file"
    /\ idx = 2

====
